---- MODULE Spec2Model ----
(***************************************************************************)
(* State-machine model of the Unify python client                          *)
(*   src/unify/queries/clients.py   Client, Unify, AsyncUnify              *)
(*                                                                         *)
(* Encoding of python values                                               *)
(*   None           the empty tuple <<>>                                   *)
(*   a value v      the one-element tuple <<v>>                            *)
(*   an argument the caller leaves out: Omitted (python then binds the     *)
(*   default written in the function signature)                            *)
(*   an attribute never assigned on the object: Unset (reading it raises   *)
(*   AttributeError)                                                       *)
(*   a string "a@b" is the tuple of its "@"-free parts <<"a", "b">>        *)
(***************************************************************************)
EXTENDS Integers, Sequences, FiniteSets, TLC

VARIABLES klass, pc, endpoint, model, provider, dflt, cacheStore, call, gen, ops,
          datasets, bot

vars == <<klass, pc, endpoint, model, provider, dflt, cacheStore, call, gen, ops,
          datasets, bot>>

----------------------------------------------------------------------------
(* Bounds of the model *)

\* at most this many client-level defaults differ from the constructor's
MaxClientOverrides == 1

\* at most this many keyword arguments are given explicitly to one call
MaxCallOverrides == 1

\* at most this many operations on a client after its construction
MaxOps == 2

\* at most this many chunks in one streamed response
MaxChunks == 2

\* at most this many entries in the local response cache
MaxCacheEntries == 2

\* at most this many exchanges with the model per ChatBot
MaxTurns == 2

\* at most this many calls of ChatBot.run
MaxRuns == 3

----------------------------------------------------------------------------
(* Python values *)

None == <<>>

Some(v) == <<v>>

Omitted == <<"omitted", "omitted">>

Unset == <<"unset", "unset">>

\* the hardcoded fallbacks written in the signatures
FallbackMaxTokens == 1024

\* temperature 1.0
FallbackTemperature == 1

\* truthiness of an optional string: None and "" are falsy
Truthy(x) == x # None /\ x # Unset /\ x # Omitted /\ x[1] # ""

\* truthiness of an optional list: None and [] are falsy
TruthyList(x) == x # None /\ x # Unset /\ x # Omitted /\ x[1] # <<>>

\* truthiness of an optional bool: None and False are falsy
TruthyBool(x) == x # None /\ x # Unset /\ x # Omitted /\ x[1]

\* unify.utils.helpers._default(value, default_value)
Default(value, default_value) == IF value # None THEN value ELSE default_value

----------------------------------------------------------------------------
(* The remote service: supported endpoints, as "model@provider" *)

SupportedEndpoints ==
    { <<"gpt4", "openai">>, <<"gpt4", "together">>,
      <<"llama", "together">>, <<"router", "cfg">> }

\* unify.list_endpoints()
list_endpoints == SupportedEndpoints

\* unify.list_models(provider): all models, or those the provider serves
list_models(p) ==
    { e[1] : e \in { x \in SupportedEndpoints : p = None \/ x[2] = p[1] } }

\* unify.list_providers(model): all providers, or those serving the model
list_providers(m) ==
    { e[2] : e \in { x \in SupportedEndpoints : m = None \/ x[1] = m[1] } }

\* "router" in endpoint: substring test on the endpoint string
IsRouter(e) == \E i \in DOMAIN e : e[i] = "router"

----------------------------------------------------------------------------
(* Endpoint identity: set_endpoint, set_model, set_provider               *)
(* Each takes the identity fields and the new value and gives the fields   *)
(* afterwards, the error raised ("ok" when none), the valid set the error  *)
(* message names, and the number of listing requests issued.               *)

Ident(e, m, p) == [endpoint |-> e, model |-> m, provider |-> p]

SetterResult(id, err, named, listing) ==
    [id |-> id, err |-> err, named |-> named, listing |-> listing]

set_endpoint(id, value) ==
    LET valid_endpoints == list_endpoints
    IN  IF value \notin valid_endpoints
        THEN SetterResult(id, "UnifyError", valid_endpoints, 1)
        ELSE IF Len(value) # 2
        THEN SetterResult([id EXCEPT !.endpoint = Some(value)], "ValueError", {}, 1)
        ELSE SetterResult(Ident(Some(value), Some(value[1]), Some(value[2])),
                          "ok", {}, 1)

\* a faulty set_model that stores the value without validating it
set_model_Unchecked(id, value) ==
    SetterResult([id EXCEPT !.model = Some(value)], "ok", {}, 0)

set_model(id, value) ==
    IF id.provider = Unset
    THEN SetterResult(id, "AttributeError", {}, 0)
    ELSE LET valid_models == list_models(id.provider)
         IN  IF value \notin valid_models
             THEN SetterResult(id, "UnifyError", valid_models, 1)
             ELSE SetterResult(
                    [id EXCEPT !.model = Some(value),
                               !.endpoint = IF Truthy(id.provider)
                                            THEN Some(<<value, id.provider[1]>>)
                                            ELSE @],
                    "ok", {}, 1)

set_provider(id, value) ==
    IF id.model = Unset
    THEN SetterResult(id, "AttributeError", {}, 0)
    ELSE LET valid_providers == list_providers(id.model)
         IN  IF value \notin valid_providers
             THEN SetterResult(id, "UnifyError", valid_providers, 1)
             ELSE SetterResult(
                    [id EXCEPT !.provider = Some(value),
                               !.endpoint = IF Truthy(id.model)
                                            THEN Some(<<id.model[1], value>>)
                                            ELSE @],
                    "ok", {}, 1)

----------------------------------------------------------------------------
(* Request parameters and client-level defaults *)

\* the keyword parameters modelled, by the default written in the signatures
\* of Client.__init__ and Client.generate
SignatureDefault ==
    [ system_prompt        |-> None,
      messages             |-> None,
      max_tokens           |-> Some(FallbackMaxTokens),
      stream               |-> Some(FALSE),
      temperature          |-> Some(FallbackTemperature),
      tools                |-> None,
      use_custom_keys      |-> Some(FALSE),
      tags                 |-> None,
      message_content_only |-> Some(TRUE),
      cache                |-> Some(FALSE) ]

Params == DOMAIN SignatureDefault

\* the values a client-level default is given (by a setter or at construction)
ParamValues ==
    [ system_prompt        |-> {None, Some("sys")},
      messages             |-> {None, Some(<<>>), Some(<< <<"user", "m1">> >>)},
      max_tokens           |-> {None, Some(50), Some(FallbackMaxTokens)},
      stream               |-> {None, Some(TRUE), Some(FALSE)},
      temperature          |-> {None, Some(0), Some(FallbackTemperature)},
      tools                |-> {None, Some(<<>>), Some(<<"tool">>)},
      use_custom_keys      |-> {Some(TRUE), Some(FALSE)},
      tags                 |-> {None, Some(<<"tag">>)},
      message_content_only |-> {Some(TRUE), Some(FALSE)},
      cache                |-> {Some(TRUE), Some(FALSE)} ]

\* the values given explicitly as a keyword argument: those that python can
\* tell from leaving the argument out (not the signature default itself)
ArgValues == [f \in Params |-> ParamValues[f] \ {SignatureDefault[f]}]

AllOmitted == [f \in Params |-> Omitted]

\* keyword arguments with at most n parameters given explicitly
RECURSIVE KwArgs(_)
KwArgs(n) ==
    IF n = 0 THEN {AllOmitted}
    ELSE LET less == KwArgs(n - 1)
         IN  less \cup UNION { UNION { { [a EXCEPT ![f] = v] : v \in ArgValues[f] } :
                                       f \in Params } : a \in less }

CtorArgs == KwArgs(MaxClientOverrides)

\* the keyword arguments of a call: the cache flag, given or left out, beside
\* at most MaxCallOverrides other parameters
CallArgs ==
    { [a EXCEPT !.cache = c] :
        a \in KwArgs(MaxCallOverrides), c \in {Omitted} \cup ArgValues.cache }

\* python's binding of a keyword argument: the signature default when left out
Bind(arg, f) == IF arg = Omitted THEN SignatureDefault[f] ELSE arg

\* number of client-level defaults that differ from the constructor's defaults
Deviations(d) == Cardinality({ f \in Params : d[f] # SignatureDefault[f] })

\* the values tried for the identity arguments (supported and unsupported)
EndpointValues == SupportedEndpoints \cup { <<"llama", "openai">> }

ModelValues == { "gpt4", "llama", "bogus" }

ProviderValues == { "openai", "together", "bogus" }

\* the identity arguments tried at construction, None among them
CtorEndpoints == {None} \cup { Some(x) : x \in EndpointValues }

CtorModels == { None, Some("gpt4"), Some("bogus") }

CtorProviders == { None, Some("openai") }

\* the keys tried: the explicit argument and the environment's UNIFY_KEY
CtorKeys == { <<None, None>>, <<Some("key"), None>>, <<None, Some("envkey")>> }

----------------------------------------------------------------------------
(* The record of the last operation: what was asked and what came of it.   *)
(*   outcome  "ok" or the name of the exception raised                     *)
(*   named    the valid set an error message names                         *)
(*   listing  listing requests issued, chat: chat-completion requests      *)

Op(kind, args, outcome, named, listing) ==
    [ kind |-> kind, args |-> args, outcome |-> outcome,
      named |-> named, listing |-> listing,
      handed |-> None, transport |-> None, result |-> None,
      chat |-> 0, cacheRead |-> FALSE, prev |-> None, completion |-> None,
      payload |-> None, status |-> None, key |-> None, gets |-> 0 ]

NoStream == [state |-> "none"]

\* no ChatBot has been built
NoBot == [state |-> "none"]

\* a generator just created: no code of its body has run yet
NewStream(e, kw, mco, h) ==
    [ state |-> "created", endpoint |-> e, kw |-> kw, mco |-> mco, h |-> h,
      pending |-> <<>>, model |-> None, owed |-> FALSE, last |-> None,
      received |-> 0, yielded |-> 0, fault |-> None, start |-> None,
      requests |-> 0 ]

----------------------------------------------------------------------------
(* Construction: Client.__init__ *)

\* unify.utils.helpers._validate_api_key: the explicit key, else the
\* environment's UNIFY_KEY, else a UnifyError
validate_api_key(api_key, env_key) ==
    IF api_key # None THEN api_key
    ELSE IF env_key # None THEN env_key
    ELSE "UnifyError"

\* a constructor that goes on without a key
MissingKey_Ignored(api_key, env_key) == FALSE

\* clients.py line 90 and base.py line 188: the first statement of __init__
\* raises when no key is to be had
MissingKey(api_key, env_key) == validate_api_key(api_key, env_key) = "UnifyError"

\* a faulty guard that rejects only endpoint with both model and provider
CtorConflict_NeedsBoth(e, m, p) == Truthy(e) /\ Truthy(m) /\ Truthy(p)

\* the guard of line 91: endpoint and (model or provider)
CtorConflict(e, m, p) == Truthy(e) /\ (Truthy(m) \/ Truthy(p))

\* lines 96-104: the identity fields, assigned in source order; a setter that
\* raises leaves the later fields unassigned
CtorIdentity(e, m, p) ==
    LET s0 == SetterResult(Ident(None, Unset, Unset), "ok", {}, 0)
        s1 == IF Truthy(e) THEN set_endpoint(s0.id, e[1]) ELSE s0
        i2 == [s1.id EXCEPT !.provider = None]
        s2 == IF s1.err # "ok" THEN s1
              ELSE IF Truthy(p) THEN set_provider(i2, p[1])
              ELSE SetterResult(i2, "ok", {}, 0)
        i3 == [s2.id EXCEPT !.model = None]
        s3 == IF s2.err # "ok" THEN s2
              ELSE IF Truthy(m) THEN set_model(i3, m[1])
              ELSE SetterResult(i3, "ok", {}, 0)
    IN  [s3 EXCEPT !.listing = s1.listing + (IF s1.err = "ok" THEN s2.listing ELSE 0)
                               + (IF s1.err = "ok" /\ s2.err = "ok" THEN s3.listing ELSE 0)]

Construct(k, api_key, env_key, e, m, p, d) ==
    /\ pc = "new"
    /\ klass' = k
    /\ LET args == [api_key |-> api_key, env_key |-> env_key,
                    endpoint |-> e, model |-> m, provider |-> p]
           fail(err) ==
               /\ pc' = "failed"
               /\ call' = Op("construct", args, err, {}, 0)
               /\ UNCHANGED <<endpoint, model, provider, dflt>>
       IN  IF MissingKey(api_key, env_key)
           THEN fail("UnifyError")
           ELSE IF CtorConflict(e, m, p)
           THEN fail("UnifyError")
           ELSE LET r == CtorIdentity(e, m, p)
                IN  /\ endpoint' = r.id.endpoint
                    /\ model' = r.id.model
                    /\ provider' = r.id.provider
                    /\ call' = Op("construct", args, r.err, r.named, r.listing)
                    /\ IF r.err = "ok"
                       THEN /\ pc' = "ready"
                            /\ dflt' = [f \in Params |-> Bind(d[f], f)]
                       ELSE /\ pc' = "failed"
                            /\ UNCHANGED dflt
    /\ UNCHANGED <<cacheStore, gen, ops, datasets, bot>>

----------------------------------------------------------------------------
(* The setters of a constructed client *)

Apply(kind, value, r) ==
    /\ endpoint' = r.id.endpoint
    /\ model' = r.id.model
    /\ provider' = r.id.provider
    /\ call' = Op(kind, value, r.err, r.named, r.listing)
    /\ ops' = ops + 1
    /\ UNCHANGED <<klass, pc, dflt, cacheStore, gen, datasets, bot>>

SetEndpoint(value) ==
    /\ pc = "ready"
    /\ Apply("set_endpoint", value, set_endpoint(Ident(endpoint, model, provider), value))

SetModel(value) ==
    /\ pc = "ready"
    /\ Apply("set_model", value, set_model(Ident(endpoint, model, provider), value))

SetProvider(value) ==
    /\ pc = "ready"
    /\ Apply("set_provider", value, set_provider(Ident(endpoint, model, provider), value))

\* set_system_prompt ... set_cache: each stores the value it is given
SetDefault(f, value) ==
    /\ pc = "ready"
    /\ Deviations([dflt EXCEPT ![f] = value]) <= MaxClientOverrides
    /\ dflt' = [dflt EXCEPT ![f] = value]
    /\ call' = Op("set_default", <<f, value>>, "ok", {}, 0)
    /\ ops' = ops + 1
    /\ UNCHANGED <<klass, pc, endpoint, model, provider, cacheStore, gen, datasets, bot>>

----------------------------------------------------------------------------
(* generate: the defaulting of Client.generate *)

\* lines 924-957: what Client.generate hands to _generate
Handed(args, d, f) == Default(Bind(args[f], f), d[f])

Client_generate(user_prompt, args, d) ==
    [ user_prompt          |-> IF user_prompt = Omitted THEN None ELSE user_prompt,
      system_prompt        |-> Handed(args, d, "system_prompt"),
      messages             |-> Handed(args, d, "messages"),
      max_tokens           |-> Handed(args, d, "max_tokens"),
      stream               |-> Handed(args, d, "stream"),
      temperature          |-> Handed(args, d, "temperature"),
      tools                |-> Handed(args, d, "tools"),
      use_custom_keys      |-> Handed(args, d, "use_custom_keys"),
      tags                 |-> Handed(args, d, "tags"),
      message_content_only |-> Handed(args, d, "message_content_only"),
      cache                |-> Handed(args, d, "cache") ]

\* a faulty variant that puts the system message last
BuildContents_SystemLast(system_prompt, user_prompt, messages) ==
    LET sys == IF Truthy(system_prompt)
               THEN << <<"system", system_prompt[1]>> >> ELSE <<>>
    IN  IF Truthy(user_prompt)
        THEN [err |-> "ok", contents |-> << <<"user", user_prompt[1]>> >> \o sys]
        ELSE IF TruthyList(messages)
        THEN [err |-> "ok", contents |-> messages[1] \o sys]
        ELSE [err |-> "UnifyError", contents |-> sys]

\* a faulty variant that builds the messages without the usage check
BuildContents_Unchecked(system_prompt, user_prompt, messages) ==
    [ err |-> "ok",
      contents |-> (IF Truthy(system_prompt)
                    THEN << <<"system", system_prompt[1]>> >> ELSE <<>>)
                   \o (IF Truthy(user_prompt)
                       THEN << <<"user", user_prompt[1]>> >>
                       ELSE IF TruthyList(messages) THEN messages[1] ELSE <<>>) ]

\* lines 1176-1184 and 1370-1379: the outbound messages, or the usage error
BuildContents(system_prompt, user_prompt, messages) ==
    LET sys == IF Truthy(system_prompt)
               THEN << <<"system", system_prompt[1]>> >> ELSE <<>>
    IN  IF Truthy(user_prompt)
        THEN [err |-> "ok", contents |-> sys \o << <<"user", user_prompt[1]>> >>]
        ELSE IF TruthyList(messages)
        THEN [err |-> "ok", contents |-> sys \o messages[1]]
        ELSE [err |-> "UnifyError", contents |-> sys]

\* lines 1186-1187: tools force the full completion (Unify only; the
\* AsyncUnify._generate has no such statement)
ContentOnly(k, tools, message_content_only) ==
    IF k = "Unify" /\ TruthyList(tools) THEN Some(FALSE) ELSE message_content_only

\* Query(...).model_dump(): every field of the query, the null ones included
Query(contents, h) ==
    [ messages |-> Some(contents), max_tokens |-> h.max_tokens,
      temperature |-> h.temperature, tools |-> h.tools,
      extra_body |-> Some(<<>>) ]

\* a faulty variant that lets a null tools field through
StripNone_SparesTools(r) == [k \in {x \in DOMAIN r : r[x] # None \/ x = "tools"} |-> r[k]]

StripNone(r) == [k \in {x \in DOMAIN r : r[x] # None} |-> r[k]]

\* a faulty payload that leaves the token limit out
BuildKw_NoMaxTokens(e, query, stream, use_custom_keys, tags) ==
    StripNone(
      [ model |-> e,
        messages |-> query.messages,
        temperature |-> query.temperature,
        tools |-> query.tools,
        stream |-> IF stream THEN Some(TRUE) ELSE None,
        extra_body |-> Some([signature |-> "python",
                             use_custom_keys |-> use_custom_keys,
                             tags |-> tags]) ])

\* lines 1057-1076 and 1101-1118: the keyword arguments of the request
BuildKw(e, query, stream, use_custom_keys, tags) ==
    StripNone(
      [ model |-> e,
        messages |-> query.messages,
        max_tokens |-> query.max_tokens,
        temperature |-> query.temperature,
        tools |-> query.tools,
        stream |-> IF stream THEN Some(TRUE) ELSE None,
        stream_options |-> None,
        extra_body |-> Some([signature |-> "python",
                             use_custom_keys |-> use_custom_keys,
                             tags |-> tags]) ])

\* a faulty dispatch that sends every call to the non-streaming transport
Dispatch_NeverStream(stream) == "non_stream"

\* lines 1210-1231 and 1401-1422: the transport a call is dispatched to
Dispatch(stream) == IF TruthyBool(stream) THEN "stream" ELSE "non_stream"

----------------------------------------------------------------------------
(* The remote chat-completions service and the local response cache *)

StatusCodes == {400}

\* unify.exceptions.status_error_map
status_error_map(code) == IF code = 400 THEN "BadRequestError" ELSE "KeyError"

\* a status error swallowed
Raised_Swallowed(code) == "ok"

\* a status error left uncaught
Raised_Uncaught(code) == "APIStatusError"

\* lines 1087-1088, 1125-1126, 1286-1287, 1324-1325: what the except clause
\* around the request raises for an openai.APIStatusError with this status
Raised(code) == status_error_map(code)

\* the status of the remote's answer to a request, when it is an error
Answered(remote, chat) ==
    IF chat > 0 /\ remote.status = "error" THEN Some(remote.code) ELSE None

\* the model identifier of a response: the endpoint asked, or the same model
\* at another provider; a router answers with the endpoint it routed to
RespModels(e) ==
    { x \in SupportedEndpoints :
        ~IsRouter(x) /\ (IsRouter(e) \/ x[1] = e[1]) }

\* message contents: absent, empty, or text (a tuple of characters)
AllContents == { None, Some(<<>>), Some(<<" ", "h", " ">>) }

\* the message content of the responses tried where the content plays no part
Contents == { Some(<<" ", "h", " ">>) }

Completions(e, cts) ==
    { [model |-> rm, content |-> ct] : rm \in RespModels(e), ct \in cts }

NoRemote == [status |-> "none"]

RemoteOutcomes(e, cts) ==
    { [status |-> "error", code |-> c] : c \in StatusCodes }
      \cup { [status |-> "ok", resp |-> r] : r \in Completions(e, cts) }

\* python None as a stored response (what AsyncUnify writes, line 1327)
NullResponse == [null |-> TRUE]

\* unify._caching._get_cache: the response stored for exactly this payload;
\* a stored None reads as None
get_cache(store, kw) ==
    IF \E en \in store : en[1] = kw /\ en[2] # NullResponse
    THEN Some((CHOOSE en \in store : en[1] = kw /\ en[2] # NullResponse)[2])
    ELSE None

\* unify._caching._write_to_cache
write_to_cache(store, kw, resp) ==
    { en \in store : en[1] # kw } \cup { <<kw, resp>> }

\* str.strip(" ") on a tuple of characters
RECURSIVE LStrip(_)
LStrip(t) == IF t # <<>> /\ Head(t) = " " THEN LStrip(Tail(t)) ELSE t

RECURSIVE RStrip(_)
RStrip(t) ==
    IF t # <<>> /\ t[Len(t)] = " " THEN RStrip(SubSeq(t, 1, Len(t) - 1)) ELSE t

\* a faulty strip that removes the leading spaces only
Strip_LeadingOnly(t) == LStrip(t)

Strip(t) == RStrip(LStrip(t))

Last(t) == t[Len(t)]

----------------------------------------------------------------------------
(* The transports of Unify *)

Outcome(id, store, err, result, chat, listing, named, cacheRead) ==
    [ id |-> id, store |-> store, err |-> err, result |-> result, chat |-> chat,
      listing |-> listing, named |-> named, cacheRead |-> cacheRead,
      completion |-> None ]

\* lines 1135-1140: the value returned by a non-streaming call
Returned(mco, completion) ==
    IF mco
    THEN [kind |-> "text",
          value |-> IF TruthyList(completion.content)
                    THEN Strip(completion.content[1]) ELSE <<>>]
    ELSE [kind |-> "completion", value |-> completion]

\* whether the non-streaming call asks the remote service (lines 1119-1122)
Misses(store, kw, cache) == ~cache \/ get_cache(store, kw) = None

\* lines 1119-1140: Unify._generate_non_stream once the payload kw is built;
\* create(**kw) without a model raises TypeError before any request is sent
Unify_generate_non_stream(id, store, e, kw, mco, cache, remote) ==
    LET miss == Misses(store, kw, cache)
    IN  IF miss /\ "model" \notin DOMAIN kw
        THEN Outcome(id, store, "TypeError", None, 0, 0, {}, cache)
        ELSE IF miss /\ remote.status = "error"
        THEN Outcome(id, store, Raised(remote.code), None, 1, 0, {}, cache)
        ELSE LET completion == IF miss THEN remote.resp ELSE get_cache(store, kw)[1]
                 store2 == IF miss /\ cache
                           THEN write_to_cache(store, kw, completion) ELSE store
                 chat == IF miss THEN 1 ELSE 0
                 sp == IF e = None THEN SetterResult(id, "TypeError", {}, 0)
                       ELSE IF ~IsRouter(e[1])
                       THEN set_provider(id, Last(completion.model))
                       ELSE SetterResult(id, "ok", {}, 0)
             IN  IF sp.err # "ok"
                 THEN Outcome(id, store2, sp.err, None, chat, sp.listing, sp.named, cache)
                 ELSE [ Outcome(sp.id, store2, "ok", Returned(mco, completion),
                                chat, sp.listing, {}, cache)
                          EXCEPT !.completion = Some(completion) ]

\* one resumption of a generator: the fields afterwards, the chunks still to
\* come, the exception raised, the item yielded, whether the chunk object of
\* the chunk read last is still to be yielded, and the chunk read last
Step(id, pending, err, state, item, listing, named, owed, last) ==
    [ id |-> id, pending |-> pending, err |-> err, state |-> state,
      item |-> item, listing |-> listing, named |-> named, owed |-> owed,
      last |-> last, status |-> None ]

\* lines 1087-1088 and 1286-1287: the stream breaks with a status error
\* while it is being iterated
Broken(id, code, listing, last) ==
    [ Step(id, <<>>, Raised(code), "failed", None, listing, {}, FALSE, last)
        EXCEPT !.status = Some(code) ]

\* lines 1079-1086: the body of the streaming loop, run from the chunks still
\* to come until the next yield, the end of the stream, or an exception
RECURSIVE RunChunks(_, _, _, _, _, _, _)
RunChunks(id, pending, rm, mco, listing, last, fault) ==
    IF pending = <<>> /\ fault # None
    THEN Broken(id, fault[1], listing, last)
    ELSE IF pending = <<>>
    THEN Step(id, <<>>, "ok", "done", None, listing, {}, FALSE, last)
    ELSE LET chunk == [model |-> rm, content |-> Head(pending)]
             content == IF mco THEN chunk.content ELSE Some(chunk)
             sp == set_provider(id, Last(chunk.model))
         IN  IF sp.err # "ok"
             THEN Step(id, Tail(pending), sp.err, "failed", None,
                       listing + sp.listing, sp.named, FALSE, Some(chunk))
             ELSE IF content # None
             THEN Step(sp.id, Tail(pending), "ok", "open",
                       [kind |-> IF mco THEN "text" ELSE "chunk",
                        value |-> content[1]],
                       listing + sp.listing, {}, FALSE, Some(chunk))
             ELSE RunChunks(sp.id, Tail(pending), rm, mco, listing + sp.listing,
                            Some(chunk), fault)

\* lines 1280-1285: the loop of AsyncUnify._generate_stream up to its next
\* yield: with content-only on it yields `content or ""` and, when resumed,
\* the chunk object as well
AsyncUnify_RunChunks(id, pending, rm, mco, owed, last, fault) ==
    IF owed
    THEN Step(id, pending, "ok", "open", [kind |-> "chunk", value |-> last[1]],
              0, {}, FALSE, last)
    ELSE IF pending = <<>> /\ fault # None
    THEN Broken(id, fault[1], 0, last)
    ELSE IF pending = <<>>
    THEN Step(id, <<>>, "ok", "done", None, 0, {}, FALSE, last)
    ELSE LET chunk == [model |-> rm, content |-> Head(pending)]
             sp == set_provider(id, Last(chunk.model))
         IN  IF sp.err # "ok"
             THEN Step(id, Tail(pending), sp.err, "failed", None, sp.listing,
                       sp.named, FALSE, Some(chunk))
             ELSE IF mco
             THEN Step(sp.id, Tail(pending), "ok", "open",
                       [kind |-> "text",
                        value |-> IF TruthyList(chunk.content)
                                  THEN chunk.content[1] ELSE <<>>],
                       sp.listing, {}, TRUE, Some(chunk))
             ELSE Step(sp.id, Tail(pending), "ok", "open",
                       [kind |-> "chunk", value |-> chunk],
                       sp.listing, {}, FALSE, Some(chunk))

\* the streamed responses of the remote service: sequences of chunk contents
RECURSIVE ChunkSeqs(_)
ChunkSeqs(n) ==
    IF n = 0 THEN { <<>> }
    ELSE LET less == ChunkSeqs(n - 1)
         IN  less \cup { Append(q, c) : q \in less, c \in {None, Some(<<"h">>)} }

\* how a stream ends: exhausted, or broken by a status error
Faults == { None } \cup { Some(c) : c \in StatusCodes }

StreamOutcomes(e, faults) ==
    { [status |-> "error", code |-> c] : c \in StatusCodes }
      \cup { [status |-> "ok", model |-> rm, chunks |-> q, fault |-> f] :
               rm \in RespModels(e), q \in ChunkSeqs(MaxChunks), f \in faults }

----------------------------------------------------------------------------
(* generate and the consumption of a stream *)

\* the payload of the chat-completion request a call sent, if it sent one
Sent(kw, chat) == IF chat > 0 THEN Some(kw) ELSE None

\* the payload a call looked up in the cache, if it consulted the cache
Looked(kw, cacheRead) == IF cacheRead THEN Some(kw) ELSE None

\* the record of a generate call with outcome r
GenerateCall(user_prompt, args, h, transport, r) ==
    [ kind |-> "generate", args |-> <<user_prompt, args>>, outcome |-> r.err,
      named |-> r.named, listing |-> r.listing, handed |-> h,
      transport |-> transport, result |-> r.result, chat |-> r.chat,
      cacheRead |-> r.cacheRead, completion |-> r.completion,
      payload |-> None, status |-> None, key |-> None, gets |-> 0,
      prev |-> IF call.kind = "generate" /\ call.args = <<user_prompt, args>>
               THEN Some([outcome |-> call.outcome, result |-> call.result,
                          chat |-> call.chat])
               ELSE None ]

\* faulty defaults that take on what the call was handed
Kept_Sticky(d, h) == [f \in Params |-> h[f]]

\* lines 924-957: the client-level defaults after a generate call that was
\* handed h; _default reads them and nothing is assigned to them
Kept(d, h) == d

Generate(user_prompt, args, cts) ==
    /\ pc = "ready"
    /\ dflt' = Kept(dflt, Client_generate(user_prompt, args, dflt))
    /\ \E h \in {Client_generate(user_prompt, args, dflt)} :
       \E built \in {BuildContents(h.system_prompt, h.user_prompt, h.messages)} :
       \E mco \in {ContentOnly(klass, h.tools, h.message_content_only)} :
       \E route \in {Dispatch(h.stream)} :
       \E transport \in {[route |-> route, mco |-> mco, cache |-> h.cache]} :
         LET id == Ident(endpoint, model, provider)
             quiet(err) ==
               /\ call' = GenerateCall(user_prompt, args, h,
                             IF err = "UnifyError" THEN None ELSE transport,
                             Outcome(id, cacheStore, err, None, 0, 0, {}, FALSE))
               /\ gen' = NoStream
               /\ UNCHANGED <<endpoint, model, provider, cacheStore>>
         IN  IF built.err # "ok" THEN quiet(built.err)
             ELSE IF klass = "AsyncUnify" THEN quiet("TypeError")
             ELSE \E kw \in {BuildKw(endpoint, Query(built.contents, h),
                                     route = "stream", h.use_custom_keys, h.tags)} :
                  IF route = "stream"
                  THEN /\ gen' = [ NewStream(endpoint, kw, TruthyBool(mco), h)
                                    EXCEPT !.start = Some(id) ]
                       /\ call' = GenerateCall(user_prompt, args, h, transport,
                                     Outcome(id, cacheStore, "ok",
                                             [kind |-> "generator"], 0, 0, {}, FALSE))
                       /\ UNCHANGED <<endpoint, model, provider, cacheStore>>
                  ELSE \E remote \in
                          (IF Misses(cacheStore, kw, TruthyBool(h.cache))
                                /\ "model" \in DOMAIN kw
                           THEN RemoteOutcomes(endpoint[1], cts) ELSE {NoRemote}) :
                       \E r \in {Unify_generate_non_stream(
                                    id, cacheStore, endpoint, kw, TruthyBool(mco),
                                    TruthyBool(h.cache), remote)} :
                         /\ Cardinality(r.store) <= MaxCacheEntries
                         /\ endpoint' = r.id.endpoint
                         /\ model' = r.id.model
                         /\ provider' = r.id.provider
                         /\ cacheStore' = r.store
                         /\ gen' = NoStream
                         /\ call' = [ GenerateCall(user_prompt, args, h, transport, r)
                                       EXCEPT !.payload = Sent(kw, r.chat),
                                              !.status = Answered(remote, r.chat),
                                              !.key = Looked(kw, r.cacheRead) ]
    /\ ops' = ops + 1
    /\ UNCHANGED <<klass, pc, datasets, bot>>

\* lines 1318-1334: AsyncUnify._generate_non_stream once the payload kw is
\* built; it writes chat_completion, still None, to the cache, reads
\* async_response, which a cache hit leaves unbound, and has no router test
AsyncUnify_generate_non_stream(id, store, e, kw, mco, cache, remote) ==
    LET miss == Misses(store, kw, cache)
    IN  IF miss /\ "model" \notin DOMAIN kw
        THEN Outcome(id, store, "TypeError", None, 0, 0, {}, cache)
        ELSE IF miss /\ remote.status = "error"
        THEN Outcome(id, store, Raised(remote.code), None, 1, 0, {}, cache)
        ELSE IF ~miss
        THEN Outcome(id, store, "UnboundLocalError", None, 0, 0, {}, cache)
        ELSE LET completion == remote.resp
                 store2 == IF cache
                           THEN write_to_cache(store, kw, NullResponse) ELSE store
                 sp == set_provider(id, Last(completion.model))
             IN  IF sp.err # "ok"
                 THEN Outcome(id, store2, sp.err, None, 1, sp.listing, sp.named, cache)
                 ELSE [ Outcome(sp.id, store2, "ok", Returned(mco, completion),
                                1, sp.listing, {}, cache)
                          EXCEPT !.completion = Some(completion) ]

\* the parameters of a transport called with a Query of its caller's making
DirectCall(stream, mco, cache) ==
    [ Client_generate(Some("hi"), AllOmitted, SignatureDefault)
        EXCEPT !.stream = Some(stream), !.message_content_only = Some(mco),
               !.cache = Some(cache) ]

\* AsyncUnify._generate_stream / AsyncUnify._generate_non_stream called with
\* (self._endpoint, query, ...): lines 1247-1334
AsyncTransport(stream, mco, cache) ==
    /\ pc = "ready"
    /\ klass = "AsyncUnify"
    /\ \E h \in {DirectCall(stream, mco, cache)} :
       \E kw \in {BuildKw(endpoint, Query(<< <<"user", "hi">> >>, h), stream,
                          h.use_custom_keys, h.tags)} :
       \E transport \in {[route |-> IF stream THEN "stream" ELSE "non_stream",
                          mco |-> Some(mco), cache |-> Some(cache)]} :
         LET id == Ident(endpoint, model, provider)
             done(r, remote) ==
               call' = [ GenerateCall(Some("hi"), <<stream, mco, cache>>, h, transport, r)
                           EXCEPT !.kind = "transport", !.prev = None,
                                  !.payload = Sent(kw, r.chat),
                                  !.status = Answered(remote, r.chat),
                                              !.key = Looked(kw, r.cacheRead) ]
         IN  IF stream
             THEN /\ gen' = [NewStream(endpoint, kw, mco, h) EXCEPT !.start = Some(id)]
                  /\ done(Outcome(id, cacheStore, "ok", [kind |-> "generator"],
                                  0, 0, {}, FALSE), NoRemote)
                  /\ UNCHANGED <<endpoint, model, provider, cacheStore>>
             ELSE \E remote \in (IF "model" \in DOMAIN kw
                                 THEN RemoteOutcomes(endpoint[1], Contents)
                                 ELSE {NoRemote}) :
                  \E r \in {AsyncUnify_generate_non_stream(
                               id, cacheStore, endpoint, kw, mco, cache, remote)} :
                    /\ Cardinality(r.store) <= MaxCacheEntries
                    /\ endpoint' = r.id.endpoint
                    /\ model' = r.id.model
                    /\ provider' = r.id.provider
                    /\ cacheStore' = r.store
                    /\ gen' = NoStream
                    /\ done(r, remote)
    /\ ops' = ops + 1
    /\ UNCHANGED <<klass, pc, dflt, datasets, bot>>

\* a generator that reads the endpoint when it is first run
StreamPayload_Late(g, e) == [g.kw EXCEPT !.model = e]

\* lines 1045-1078: the payload is built from the parameters of
\* _generate_stream, bound when the generator was created; the client's
\* endpoint e at the time of the request plays no part
StreamPayload(g, e) == g.kw

\* next() on the generator returned by a streaming call: lines 1057-1088,
\* and 1259-1287 for the generator of AsyncUnify._generate_stream
StreamNext(faults) ==
    /\ pc = "ready"
    /\ gen.state \in {"created", "open"}
    /\ LET id == Ident(endpoint, model, provider)
           run(pending, rm, fault) ==
               IF klass = "AsyncUnify"
               THEN AsyncUnify_RunChunks(id, pending, rm, gen.mco, gen.owed,
                                         gen.last, fault)
               ELSE RunChunks(id, pending, rm, gen.mco, 0, gen.last, fault)
           finish(r, rm, chat, before, fault) ==
               /\ endpoint' = r.id.endpoint
               /\ model' = r.id.model
               /\ provider' = r.id.provider
               /\ gen' = [gen EXCEPT !.state = r.state, !.pending = r.pending,
                                     !.model = rm, !.owed = r.owed, !.last = r.last,
                                     !.fault = fault, !.requests = @ + chat,
                                     !.received = @ + (before - Len(r.pending)),
                                     !.yielded = @ + (IF r.state = "open" THEN 1 ELSE 0)]
               /\ call' = [ kind |-> "next", args |-> None, outcome |-> r.err,
                            named |-> r.named, listing |-> r.listing,
                            handed |-> None, transport |-> None,
                            result |-> IF r.state = "done"
                                       THEN [kind |-> "stop"]
                                       ELSE r.item,
                            chat |-> chat, cacheRead |-> FALSE, prev |-> None,
                            completion |-> None, payload |-> Sent(StreamPayload(gen, endpoint), chat),
                            status |-> r.status, key |-> None, gets |-> 0 ]
           raise(err, chat, status) ==
               finish([ Step(id, <<>>, err, "failed", None, 0, {}, FALSE, None)
                          EXCEPT !.status = status ],
                      None, chat, 0, None)
       IN  IF gen.state = "open"
           THEN \E r \in {run(gen.pending, gen.model[1], gen.fault)} :
                  finish(r, gen.model, 0, Len(gen.pending), gen.fault)
           ELSE IF "model" \notin DOMAIN gen.kw THEN raise("TypeError", 0, None)
           ELSE \E remote \in StreamOutcomes(gen.endpoint[1], faults) :
                  IF remote.status = "error"
                  THEN raise(Raised(remote.code), 1, Some(remote.code))
                  ELSE \E r \in {run(remote.chunks, remote.model, remote.fault)} :
                         finish(r, Some(remote.model), 1, Len(remote.chunks),
                                remote.fault)
    /\ UNCHANGED <<klass, pc, dflt, cacheStore, ops, datasets, bot>>

----------------------------------------------------------------------------

Init ==
    /\ klass = "none"
    /\ pc = "new"
    /\ endpoint = Unset
    /\ model = Unset
    /\ provider = Unset
    /\ dflt = Unset
    /\ cacheStore = {}
    /\ call = Op("none", None, "ok", {}, 0)
    /\ gen = NoStream
    /\ ops = 0
    /\ datasets = {}
    /\ bot = NoBot

Next ==
    \/ /\ pc = "new"
       /\ \E k \in {"Unify", "AsyncUnify"}, key \in CtorKeys, e \in CtorEndpoints,
             m \in CtorModels, p \in CtorProviders, d \in CtorArgs :
               Construct(k, key[1], key[2], e, m, p, d)
    \/ /\ pc = "ready"
       /\ ops < MaxOps
       /\ \/ \E value \in EndpointValues : SetEndpoint(value)
          \/ \E value \in ModelValues : SetModel(value)
          \/ \E value \in ProviderValues : SetProvider(value)
          \/ \E f \in Params : \E value \in ParamValues[f] : SetDefault(f, value)
          \/ \E user_prompt \in {Omitted, Some("hi")}, args \in CallArgs :
                Generate(user_prompt, args, Contents)
    \/ StreamNext({None})

Spec == Init /\ [][Next]_vars

\* the transports of AsyncUnify, called directly on a constructed client
NextTransport ==
    \/ /\ pc = "new"
       /\ \E key \in CtorKeys, e \in CtorEndpoints, d \in CtorArgs :
               Construct("AsyncUnify", key[1], key[2], e, None, None, d)
    \/ /\ pc = "ready"
       /\ ops < MaxOps
       /\ \E stream \in BOOLEAN, mco \in BOOLEAN, cache \in BOOLEAN :
               AsyncTransport(stream, mco, cache)
    \/ StreamNext(Faults)

SpecTransport == Init /\ [][NextTransport]_vars

----------------------------------------------------------------------------
(* The client of unify.chat.clients.base and the auxiliary requests *)

\* the keyword parameters of _Client modelled: two with a fallback in
\* generate besides the client-level default, one with a fallback False, one
\* with none
BaseParams == {"max_completion_tokens", "temperature", "stream", "tags"}

\* base.py lines 25-58: the defaults written in the signature of __init__
BaseCtorDefault ==
    [ max_completion_tokens |-> Some(FallbackMaxTokens),
      temperature           |-> Some(FallbackTemperature),
      stream                |-> Some(FALSE),
      tags                  |-> None ]

\* the values tried for each parameter
BaseValues ==
    [ max_completion_tokens |-> {None, Some(5)},
      temperature           |-> {None, Some(0)},
      stream                |-> {None, Some(TRUE)},
      tags                  |-> {None, Some(<<"tag">>)} ]

\* keyword arguments: each parameter given one of its values or left out
BaseKwArgs ==
    { [ max_completion_tokens |-> a, temperature |-> b, stream |-> c, tags |-> d ] :
        a \in BaseValues.max_completion_tokens \cup {Omitted},
        b \in BaseValues.temperature \cup {Omitted},
        c \in BaseValues.stream \cup {Omitted},
        d \in BaseValues.tags \cup {Omitted} }

\* base.py lines 188-245: _Client.__init__ stores each argument as given,
\* the signature default when it is left out
BaseConstruct(api_key, env_key, d) ==
    /\ pc = "new"
    /\ klass' = "_Client"
    /\ IF MissingKey(api_key, env_key)
       THEN /\ pc' = "failed"
            /\ call' = Op("construct", [api_key |-> api_key, env_key |-> env_key,
                                        given |-> d], "UnifyError", {}, 0)
            /\ UNCHANGED dflt
       ELSE /\ pc' = "ready"
            /\ dflt' = [f \in BaseParams |->
                          IF d[f] = Omitted THEN BaseCtorDefault[f] ELSE d[f]]
            /\ call' = Op("construct", [api_key |-> api_key, env_key |-> env_key,
                                        given |-> d], "ok", {}, 0)
    /\ UNCHANGED <<endpoint, model, provider, cacheStore, gen, ops, datasets, bot>>

\* base.py lines 584-591, 638-645, 656-663, 710-717: the setters
BaseSetDefault(f, value) ==
    /\ pc = "ready"
    /\ klass = "_Client"
    /\ dflt' = [dflt EXCEPT ![f] = value]
    /\ call' = Op("set_default", <<f, value>>, "ok", {}, 0)
    /\ ops' = ops + 1
    /\ UNCHANGED <<klass, pc, endpoint, model, provider, cacheStore, gen, datasets, bot>>

\* base.py lines 949-974: the value _Client.generate hands on for parameter
\* f, from the argument as bound (None when left out) and the client's fields
BaseDefaulted(f, arg, self) ==
    IF f = "max_completion_tokens"
    THEN Default(Default(arg, self[f]), Some(FallbackMaxTokens))
    ELSE IF f = "temperature"
    THEN Default(Default(arg, self[f]), Some(FallbackTemperature))
    ELSE IF f = "stream"
    THEN Default(Default(arg, self[f]), Some(FALSE))
    ELSE Default(arg, self[f])

\* base.py lines 778-810: every keyword of generate has the signature
\* default None
BaseBind(arg) == IF arg = Omitted THEN None ELSE arg

\* base.py lines 948-982: _Client.generate
BaseGenerate(args) ==
    /\ pc = "ready"
    /\ klass = "_Client"
    /\ call' = [ Op("base_generate", args, "ok", {}, 0) EXCEPT !.handed =
                   [f \in BaseParams |-> BaseDefaulted(f, BaseBind(args[f]), dflt)] ]
    /\ ops' = ops + 1
    /\ UNCHANGED <<klass, pc, endpoint, model, provider, dflt, cacheStore, gen, datasets, bot>>

\* what the credits endpoint can answer: no answer, an error status, a body
\* that is not JSON, JSON without the credits field, or the credits
CreditResponses ==
    { [kind |-> "network"], [kind |-> "status"], [kind |-> "invalid"],
      [kind |-> "nofield"], [kind |-> "ok", credits |-> 7] }

\* the classes of the exception response.json() raises for a body that is
\* not JSON: a plain ValueError, or requests' JSONDecodeError, which is a
\* RequestException as well
JsonErrorBases ==
    { {"ValueError"}, {"JSONDecodeError", "RequestException", "ValueError"} }

\* the classes of the exception raised inside the try block
CreditException(resp, bases) ==
    IF resp.kind = "network" THEN {"ConnectionError", "RequestException"}
    ELSE IF resp.kind = "status" THEN {"HTTPError", "RequestException"}
    ELSE IF resp.kind = "invalid" THEN bases
    ELSE IF resp.kind = "nofield" THEN {"KeyError"}
    ELSE {}

\* clients.py line 983 and base.py lines 1008-1009: the request error raised
RequestError(k) == IF k = "_Client" THEN "RequestException" ELSE "BadRequestError"

\* clients.py lines 962-985 and base.py lines 988-1012: the except clauses
\* are tried in order
get_credit_balance(k, resp, bases) ==
    LET exc == CreditException(resp, bases)
    IN  IF exc = {} THEN [err |-> "ok", result |-> Some(resp.credits)]
        ELSE IF "RequestException" \in exc
        THEN [err |-> RequestError(k), result |-> None]
        ELSE [err |-> "ValueError", result |-> None]

GetCreditBalance(resp, bases) ==
    /\ pc = "ready"
    /\ \E r \in {get_credit_balance(klass, resp, bases)} :
         call' = [ Op("get_credit_balance", resp, r.err, {}, 0)
                     EXCEPT !.result = r.result, !.gets = 1 ]
    /\ ops' = ops + 1
    /\ UNCHANGED <<klass, pc, endpoint, model, provider, dflt, cacheStore, gen, datasets, bot>>

\* what the endpoint-metrics endpoint can answer: no answer, an error
\* status, a body that is not JSON, an empty list, a list whose first record
\* lacks a field, or a list of full records; the service's record names a
\* region and a sequence length of its own
MetricsRecord ==
    [ ttft |-> 1, itl |-> 2, input_cost |-> 3, output_cost |-> 4,
      measured_at |-> "t0", region |-> "Belgium", seq_len |-> "long" ]

MetricsResponses ==
    { [kind |-> "network"], [kind |-> "status"], [kind |-> "invalid"],
      [kind |-> "json", body |-> <<>>],
      [kind |-> "json", body |-> << [ttft |-> 1, input_cost |-> 3] >>],
      [kind |-> "json", body |-> << MetricsRecord >>] }

Regions == {"Iowa", "Belgium"}

SeqLens == {"short", "long"}

\* endpoint_metrics.py lines 70-78: the record built from the first entry
Metrics(d, region, seq_len) ==
    [ time_to_first_token |-> d.ttft, inter_token_latency |-> d.itl,
      input_cost |-> d.input_cost, output_cost |-> d.output_cost,
      measured_at |-> d.measured_at, region |-> region, seq_len |-> seq_len ]

\* endpoint_metrics.py lines 50-78: nothing is caught, so each failure
\* leaves as the exception it is
get_endpoint_metrics(api_key, env_key, region, seq_len, resp) ==
    IF validate_api_key(api_key, env_key) = "UnifyError"
    THEN [err |-> "UnifyError", result |-> None, gets |-> 0]
    ELSE IF resp.kind = "network"
    THEN [err |-> "ConnectionError", result |-> None, gets |-> 1]
    ELSE IF resp.kind = "status"
    THEN [err |-> "HTTPError", result |-> None, gets |-> 1]
    ELSE IF resp.kind = "invalid"
    THEN [err |-> "JSONDecodeError", result |-> None, gets |-> 1]
    ELSE IF resp.body = <<>>
    THEN [err |-> "IndexError", result |-> None, gets |-> 1]
    ELSE IF {"ttft", "itl", "input_cost", "output_cost", "measured_at"}
              \ DOMAIN resp.body[1] # {}
    THEN [err |-> "KeyError", result |-> None, gets |-> 1]
    ELSE [err |-> "ok", result |-> Some(Metrics(resp.body[1], region, seq_len)),
          gets |-> 1]

\* the exceptions that are a ValueError
ValueErrors == {"ValueError", "JSONDecodeError"}

GetEndpointMetrics(api_key, env_key, region, seq_len, resp) ==
    /\ \E r \in {get_endpoint_metrics(api_key, env_key, region, seq_len, resp)} :
         call' = [ Op("get_endpoint_metrics",
                      [region |-> region, seq_len |-> seq_len, resp |-> resp],
                      r.err, {}, 0)
                     EXCEPT !.result = r.result, !.gets = r.gets ]
    /\ ops' = ops + 1
    /\ UNCHANGED <<klass, pc, endpoint, model, provider, dflt, cacheStore, gen, datasets, bot>>

\* the clients of both modules and their requests beside chat completions
NextService ==
    \/ /\ pc = "new"
       /\ \/ \E k \in {"Unify", "AsyncUnify"}, key \in CtorKeys, e \in CtorEndpoints :
               Construct(k, key[1], key[2], e, None, None, AllOmitted)
          \/ \E key \in CtorKeys, d \in BaseKwArgs :
               BaseConstruct(key[1], key[2], d)
    \/ /\ pc = "ready"
       /\ ops < MaxOps
       /\ \/ \E resp \in CreditResponses, bases \in JsonErrorBases :
               GetCreditBalance(resp, bases)
          \/ \E f \in BaseParams : \E value \in BaseValues[f] : BaseSetDefault(f, value)
          \/ \E args \in BaseKwArgs : BaseGenerate(args)
    \/ /\ ops < MaxOps
       /\ \E key \in CtorKeys, region \in Regions, seq_len \in SeqLens,
             resp \in MetricsResponses :
               GetEndpointMetrics(key[1], key[2], region, seq_len, resp)

SpecService == Init /\ [][NextService]_vars

----------------------------------------------------------------------------
(* Datasets: named sets of records kept by the remote service *)

DatasetNames == {"TestUploadAndDelete", "TestFromDict"}

\* the records uploaded: one prompt, two, or three
DatasetRecords == { <<"first">>, <<"first", "second">>, <<"first", "second", "third">> }

\* unify.list_datasets(): the names of the stored datasets
list_datasets(store) == { d[1] : d \in store }

\* a faulty delete that leaves the dataset in place
delete_dataset_Kept(store, name) ==
    [err |-> IF name \in list_datasets(store) THEN "ok" ELSE "HTTPError", store |-> store]

\* unify.delete_dataset(name)
delete_dataset(store, name) ==
    IF name \in list_datasets(store)
    THEN [err |-> "ok", store |-> { d \in store : d[1] # name }]
    ELSE [err |-> "HTTPError", store |-> store]

\* unify.upload_dataset_from_file / upload_dataset_from_dictionary: a new
\* name is stored with its records; for a name already stored the service
\* either refuses or replaces the records
UploadOutcomes(store, name, records) ==
    LET put == [err |-> "ok",
                store |-> { d \in store : d[1] # name } \cup { <<name, records>> }]
    IN  IF name \in list_datasets(store)
        THEN { put, [err |-> "HTTPError", store |-> store] }
        ELSE { put }

\* test_datasets.py lines 13-15 and 55: an upload, from a file or from a list
UploadDataset(name, how, records) ==
    /\ \E r \in UploadOutcomes(datasets, name, records) :
         /\ datasets' = r.store
         /\ call' = [ Op("upload_dataset",
                          [name |-> name, how |-> how, records |-> records],
                          r.err, {}, 0)
                        EXCEPT !.prev =
                          IF call.kind = "delete_dataset" /\ call.args.name = name
                          THEN Some([kind |-> call.kind, outcome |-> call.outcome])
                          ELSE None ]
    /\ UNCHANGED <<klass, pc, endpoint, model, provider, dflt, cacheStore, gen, ops,
                   bot>>

\* test_datasets.py lines 12, 17 and 54, 57
DeleteDataset(name) ==
    /\ \E r \in {delete_dataset(datasets, name)} :
         /\ datasets' = r.store
         /\ call' = Op("delete_dataset", [name |-> name], r.err, {}, 0)
    /\ UNCHANGED <<klass, pc, endpoint, model, provider, dflt, cacheStore, gen, ops,
                   bot>>

\* test_datasets.py lines 11, 16, 18: the listing
ListDatasets ==
    /\ call' = [ Op("list_datasets", None, "ok", {}, 0)
                   EXCEPT !.result = Some(list_datasets(datasets)) ]
    /\ UNCHANGED <<klass, pc, endpoint, model, provider, dflt, cacheStore, gen, ops,
                   datasets, bot>>

NextDatasets ==
    \/ \E name \in DatasetNames, how \in {"file", "dictionary"},
          records \in DatasetRecords : UploadDataset(name, how, records)
    \/ \E name \in DatasetNames : DeleteDataset(name)
    \/ ListDatasets

SpecDatasets == Init /\ [][NextDatasets]_vars

\* the call arguments tried where the course of a stream is what matters
StreamArgs ==
    { AllOmitted, [AllOmitted EXCEPT !.cache = Some(TRUE)],
      [AllOmitted EXCEPT !.stream = Some(TRUE)],
      [AllOmitted EXCEPT !.stream = Some(TRUE),
                         !.message_content_only = Some(FALSE)] }

\* generate calls of Unify against streams that may break while iterated
NextStream ==
    \/ /\ pc = "new"
       /\ \E key \in CtorKeys, e \in CtorEndpoints, d \in CtorArgs :
               Construct("Unify", key[1], key[2], e, None, None, d)
    \/ /\ pc = "ready"
       /\ ops < MaxOps
       /\ \E args \in StreamArgs : Generate(Some("hi"), args, Contents)
    \/ StreamNext(Faults)

SpecStream == Init /\ [][NextStream]_vars

\* the call arguments tried where the response content is what matters
ContentArgs ==
    { AllOmitted, [AllOmitted EXCEPT !.message_content_only = Some(FALSE)],
      [AllOmitted EXCEPT !.cache = Some(TRUE)],
      [AllOmitted EXCEPT !.tools = Some(<<"tool">>)] }

\* the call arguments tried where the messages sent are what matters: a
\* conversation of two messages, with and without a system prompt
Conversation == << <<"user", "m1">>, <<"assistant", "m2">> >>

MessageArgs ==
    { AllOmitted, [AllOmitted EXCEPT !.system_prompt = Some("sys")],
      [AllOmitted EXCEPT !.messages = Some(Conversation)],
      [AllOmitted EXCEPT !.messages = Some(Conversation),
                         !.system_prompt = Some("sys")] }

\* non-streaming generate calls of Unify over every kind of response content
NextContent ==
    \/ /\ pc = "new"
       /\ \E key \in CtorKeys, e \in CtorEndpoints, d \in CtorArgs :
               Construct("Unify", key[1], key[2], e, None, None, d)
    \/ /\ pc = "ready"
       /\ ops < MaxOps
       /\ \/ \E args \in ContentArgs : Generate(Some("hi"), args, AllContents)
          \/ \E user_prompt \in {Omitted, Some("hi")}, args \in MessageArgs :
                Generate(user_prompt, args, Contents)

SpecContent == Init /\ [][NextContent]_vars

----------------------------------------------------------------------------
(* The ChatBot of unify/chat/chatbot.py around a constructed client.       *)
(*   bot.state   "idle" outside run, "prompt" when run waits at input()    *)
(*   bot.paused  the _paused flag                                          *)
(*   bot.log     the requests made since the history was last cleared:     *)
(*               the messages sent, the content of the model's reply and   *)
(*               the words recorded for it                                 *)
(* The chat history is the wrapped client's default messages.              *)

\* what is typed at the prompt: the two commands and a message
Inputs == { "quit", "pause", "hi" }

\* the values handed to set_client: a string, and clients built with the
\* message_content_only flag either way
ClientValues ==
    { [client |-> FALSE], [client |-> TRUE, message_content_only |-> Some(TRUE)],
      [client |-> TRUE, message_content_only |-> Some(FALSE)] }

\* what get_credit_balance gives or raises, over every answer of the service
Credits(k) ==
    { get_credit_balance(k, resp, bases) :
        resp \in CreditResponses, bases \in JsonErrorBases }

\* chatbot.py lines 9-22: the assert turns away a client that is not
\* content-only
ChatBot_init ==
    /\ pc = "ready"
    /\ bot = NoBot
    /\ IF TruthyBool(dflt.message_content_only)
       THEN /\ bot' = [state |-> "idle", paused |-> FALSE, log |-> <<>>,
                       turns |-> 0, runs |-> 0]
            /\ call' = Op("ChatBot", None, "ok", {}, 0)
       ELSE /\ bot' = bot
            /\ call' = Op("ChatBot", None, "AssertionError", {}, 0)
    /\ UNCHANGED <<klass, pc, endpoint, model, provider, dflt, cacheStore, gen, ops,
                   datasets>>

\* chatbot.py line 41: the only test set_client makes of its value
Accepts(value) == value.client

\* chatbot.py lines 34-44: the value, a client built on the same endpoint
\* with every other argument left out, replaces the wrapped client
ChatBot_set_client(value) ==
    /\ bot # NoBot
    /\ bot.state = "idle"
    /\ IF Accepts(value)
       THEN /\ dflt' = [f \in Params |->
                          IF f = "message_content_only"
                          THEN value.message_content_only ELSE SignatureDefault[f]]
            /\ call' = Op("set_client", value, "ok", {}, 0)
       ELSE /\ dflt' = dflt
            /\ call' = [ Op("set_client", value, "Exception", {}, 0)
                           EXCEPT !.prev = Some(dflt) ]
    /\ UNCHANGED <<klass, pc, endpoint, model, provider, cacheStore, gen, ops,
                   datasets, bot>>

\* a faulty update that records the user's messages only
update_message_history_UserOnly(messages, role, content) ==
    IF messages = None THEN None
    ELSE IF role = "assistant" THEN messages
    ELSE Some(Append(messages[1], <<role, content>>))

\* chatbot.py lines 55-66: append to the client's messages; None has no
\* append
update_message_history(messages, role, content) ==
    IF messages = None THEN None
    ELSE Some(Append(messages[1], <<role, content>>))

\* a faulty clear that leaves the history as it is
clear_chat_history_Kept(d) == d

\* chatbot.py lines 68-70 with clients.py lines 532-539
clear_chat_history(d) == [d EXCEPT !.messages = Some(<<>>)]

\* chatbot.py lines 72-80: the chunks of the response joined in order; a
\* string response is iterated character by character
RECURSIVE stream_response(_)
stream_response(response) ==
    IF response = <<>> THEN <<>>
    ELSE <<Head(response)>> \o stream_response(Tail(response))

\* chatbot.py lines 82-102: run up to its first prompt
ChatBot_run ==
    /\ bot # NoBot
    /\ bot.state = "idle"
    /\ bot.runs < MaxRuns
    /\ dflt' = IF ~bot.paused THEN clear_chat_history(dflt) ELSE dflt
    /\ bot' = [bot EXCEPT !.state = "prompt", !.paused = FALSE, !.runs = @ + 1,
                          !.log = IF bot.paused THEN @ ELSE <<>>]
    /\ call' = [ Op("run", None, "ok", {}, 0)
                   EXCEPT !.prev = Some([paused |-> bot.paused,
                                         messages |-> dflt.messages]) ]
    /\ UNCHANGED <<klass, pc, endpoint, model, provider, cacheStore, gen, ops,
                   datasets>>

\* the course of one exchange: the exception that ends run ("ok" when none),
\* the client's messages and identity afterwards, the cache, the requests
\* made, the payload and the words recorded
Exchanged(err, messages, r, gets, kw, words) ==
    [ err |-> err, messages |-> messages, id |-> r.id, store |-> r.store,
      chat |-> r.chat, gets |-> gets, kw |-> kw, words |-> words,
      completion |-> r.completion ]

\* chatbot.py lines 109-122: the message is recorded, the credits are read,
\* generate() is called with no argument, the response is printed and
\* recorded, the credits are read again.  generate() with no argument is
\* handed the stream of its signature, so the call takes the non-streaming
\* transport whatever the client's stream default; an exception leaves run
exchange(inp, c1, remote, c2) ==
    LET id == Ident(endpoint, model, provider)
        none == Outcome(id, cacheStore, "ok", None, 0, 0, {}, FALSE)
        asked == update_message_history(dflt.messages, "user", inp)
        h == Client_generate(Omitted, AllOmitted, [dflt EXCEPT !.messages = asked])
        built == BuildContents(h.system_prompt, h.user_prompt, h.messages)
        mco == ContentOnly(klass, h.tools, h.message_content_only)
        route == Dispatch(h.stream)
        kw == BuildKw(endpoint, Query(built.contents, h), route = "stream",
                      h.use_custom_keys, h.tags)
        r == Unify_generate_non_stream(id, cacheStore, endpoint, kw,
                                       TruthyBool(mco), TruthyBool(h.cache), remote)
        words == IF TruthyBool(dflt.stream)
                 THEN stream_response(r.result.value) ELSE r.result.value
        answered == update_message_history(asked, "assistant", words)
    IN  IF asked = None THEN Exchanged("AttributeError", None, none, 0, None, None)
        ELSE IF c1.err # "ok" THEN Exchanged(c1.err, asked, none, 1, None, None)
        ELSE IF built.err # "ok" THEN Exchanged(built.err, asked, none, 1, None, None)
        ELSE IF klass = "AsyncUnify" \/ route = "stream"
        THEN Exchanged("TypeError", asked, none, 1, None, None)
        ELSE IF r.err # "ok" THEN Exchanged(r.err, asked, r, 1, Sent(kw, r.chat), None)
        ELSE IF r.result.kind # "text"
        THEN Exchanged("TypeError", asked, r, 1, Sent(kw, r.chat), None)
        ELSE Exchanged(c2.err, answered, r, 2, Sent(kw, r.chat), Some(words))

\* chatbot.py lines 100-130: one turn of the loop, from the input typed at
\* the prompt to the next prompt or to the end of run
ChatBot_input(inp, c1, remote, c2) ==
    /\ bot # NoBot
    /\ bot.state = "prompt"
    /\ IF inp = "quit"
       THEN /\ dflt' = clear_chat_history(dflt)
            /\ bot' = [bot EXCEPT !.state = "idle", !.log = <<>>]
            /\ call' = Op("input", inp, "ok", {}, 0)
            /\ UNCHANGED <<endpoint, model, provider, cacheStore>>
       ELSE IF inp = "pause"
       THEN /\ bot' = [bot EXCEPT !.state = "idle", !.paused = TRUE]
            /\ call' = Op("input", inp, "ok", {}, 0)
            /\ UNCHANGED <<endpoint, model, provider, dflt, cacheStore>>
       ELSE /\ bot.turns < MaxTurns
            /\ \E x \in {exchange(inp, c1, remote, c2)} :
                 /\ dflt' = [dflt EXCEPT !.messages = x.messages]
                 /\ endpoint' = x.id.endpoint
                 /\ model' = x.id.model
                 /\ provider' = x.id.provider
                 /\ cacheStore' = x.store
                 /\ bot' = [bot EXCEPT
                              !.state = IF x.err = "ok" THEN "prompt" ELSE "idle",
                              !.turns = @ + 1,
                              !.log = IF x.words = None THEN @
                                      ELSE Append(@, [sent |-> x.kw[1].messages[1],
                                                      content |-> x.completion[1].content,
                                                      reply |-> x.words[1]])]
                 /\ call' = [ Op("input", inp, x.err, {}, 0)
                                EXCEPT !.chat = x.chat, !.gets = x.gets,
                                       !.payload = x.kw, !.result = x.words,
                                       !.prev = Some(dflt.messages) ]
    /\ UNCHANGED <<klass, pc, gen, ops, datasets>>

\* the turns of a prompt, over every answer of the credits endpoint and of
\* the model
Turn ==
    \E inp \in Inputs, c1 \in Credits(klass), c2 \in Credits(klass),
       remote \in (IF endpoint \in {None, Unset} THEN {NoRemote}
                   ELSE RemoteOutcomes(endpoint[1], AllContents)) :
        ChatBot_input(inp, c1, remote, c2)

\* a ChatBot around a Unify client: runs, inputs, pauses and resumes
NextChat ==
    \/ /\ pc = "new"
       /\ \E key \in CtorKeys, e \in CtorEndpoints, d \in CtorArgs :
               Construct("Unify", key[1], key[2], e, None, None, d)
    \/ ChatBot_init
    \/ ChatBot_run
    \/ Turn

SpecChat == Init /\ [][NextChat]_vars

\* the same with the wrapped client replaced between runs
NextChatClients ==
    \/ NextChat
    \/ \E value \in ClientValues : ChatBot_set_client(value)

SpecChatClients == Init /\ [][NextChatClients]_vars

----------------------------------------------------------------------------
(* Properties of the client, one group per claim of the specification *)

\* an argument as the precedence rule sees it: left out counts as null
Explicit(arg) == IF arg = Omitted THEN None ELSE arg

FirstNonNull(a, b, c) == IF a # None THEN a ELSE IF b # None THEN b ELSE c

\* the hardcoded fallbacks of the precedence rule
Fallback ==
    [f \in Params |->
       IF f \in {"temperature", "max_tokens", "stream", "cache"}
       THEN SignatureDefault[f] ELSE None]

IsGenerate == call.kind = "generate"

\* the remote service answered the call with an HTTP status error
StatusError(outcome) == outcome \in { status_error_map(c) : c \in StatusCodes }

KeyGiven(args) == args.api_key # None \/ args.env_key # None

\* C1: for every request parameter, the value Client.generate hands to
\* _generate is the first non-null of the explicit call argument, the
\* client-level default and the hardcoded fallback; an omitted argument
\* leaves the client-level default in force.
C1_Precedence ==
    IsGenerate =>
      \A f \in Params :
        call.handed[f] = FirstNonNull(Explicit(call.args[2][f]), dflt[f], Fallback[f])

\* C2: for Unify and AsyncUnify alike, a generate call whose effective tools
\* are non-empty hands content-only = false to the transport and returns the
\* full completion (or a generator of full chunks), never content-only text.
C2_ToolsForceFullCompletion ==
    /\ ( /\ IsGenerate
         /\ call.transport # None
         /\ endpoint # None
         /\ TruthyList(call.handed.tools) ) =>
         /\ call.transport.mco = Some(FALSE)
         /\ call.outcome # "TypeError"
         /\ call.outcome = "ok" => call.result.kind \in {"completion", "generator"}
    /\ (gen.state # "none" /\ TruthyList(gen.h.tools)) => ~gen.mco

\* C3: for both client variants, two consecutive non-streaming generate calls
\* with identical parameters and cache = true, neither answered with an HTTP
\* status error, issue exactly one chat-completion request in total and the
\* second returns what the first returned.
C3_CachedCallsOneRequest ==
    ( /\ IsGenerate
      /\ call.prev # None
      /\ call.transport # None
      /\ call.transport.route = "non_stream"
      /\ TruthyBool(call.transport.cache)
      /\ endpoint # None
      /\ ~StatusError(call.outcome)
      /\ ~StatusError(call.prev[1].outcome) ) =>
        /\ call.prev[1].outcome = "ok"
        /\ call.outcome = "ok"
        /\ call.prev[1].chat + call.chat = 1
        /\ call.result = call.prev[1].result

\* a step of a streaming call: the generate call that creates the generator,
\* or a next() on it
C4_Step ==
    ( \/ call'.kind = "generate" /\ TruthyBool(call'.handed.stream)
      \/ call'.kind = "next" ) =>
        /\ cacheStore' = cacheStore
        /\ ~call'.cacheRead

\* C4: a generate call whose effective stream flag is true, and every step
\* of consuming its stream, neither reads nor writes the response cache,
\* whatever the cache flag: the cache is the same after as before.
C4_StreamLeavesCache == [][C4_Step]_vars

\* a stream consumed to its end under cache = true, with the cache non-empty
C4_Witness ==
    /\ gen.state = "done"
    /\ TruthyBool(gen.h.cache)
    /\ cacheStore # {}
    /\ call.kind = "next"

\* C5: constructing a client with an endpoint together with a model or a
\* provider fails with UnifyError before any listing request is made and
\* before any identity field is assigned.
C5_CtorConflictFails ==
    ( /\ call.kind = "construct"
      /\ KeyGiven(call.args)
      /\ Truthy(call.args.endpoint)
      /\ (Truthy(call.args.model) \/ Truthy(call.args.provider)) ) =>
        /\ call.outcome = "UnifyError"
        /\ pc = "failed"
        /\ call.listing = 0
        /\ endpoint = Unset /\ model = Unset /\ provider = Unset

\* a construction with a key, an endpoint and a provider, that failed
C5_Witness ==
    /\ call.kind = "construct"
    /\ call.args.api_key # None
    /\ Truthy(call.args.endpoint)
    /\ Truthy(call.args.provider)
    /\ ~Truthy(call.args.model)
    /\ call.outcome = "UnifyError"

\* C6, as amended: a generate call whose user message is empty or absent and
\* whose effective messages (the explicit argument, else the client-level
\* default) are empty or absent fails with UnifyError, for both variants,
\* without any request and without creating a generator.
C6_NeitherFails ==
    ( /\ IsGenerate
      /\ ~Truthy(call.handed.user_prompt)
      /\ ~TruthyList(call.handed.messages) ) =>
        /\ call.outcome = "UnifyError"
        /\ call.chat = 0
        /\ call.listing = 0
        /\ call.transport = None
        /\ gen = NoStream

\* an AsyncUnify call without user message and with an explicit empty list
C6_Witness ==
    /\ klass = "AsyncUnify"
    /\ IsGenerate
    /\ call.args[1] = Omitted
    /\ call.args[2].messages = Some(<<>>)
    /\ call.outcome = "UnifyError"

\* C6, as stated: a generate call that is given neither a user message nor
\* a messages list fails with UnifyError and issues no request.
C6_NeitherArgumentFails ==
    ( /\ IsGenerate
      /\ endpoint # None
      /\ ~Truthy(call.args[1])
      /\ ~TruthyList(call.args[2].messages) ) =>
        /\ call.outcome = "UnifyError"
        /\ call.chat = 0

\* C7: a generate call with both a user message and a messages list (given
\* explicitly or through the client-level default) fails with a usage error;
\* no request and no generator is built from it.
C7_BothFails ==
    ( /\ IsGenerate
      /\ endpoint # None
      /\ Truthy(call.handed.user_prompt)
      /\ TruthyList(call.handed.messages) ) =>
        /\ call.outcome = "UnifyError"
        /\ call.chat = 0
        /\ gen = NoStream

\* C8: constructing a client with a supported provider only succeeds and
\* records the provider; and whenever set_model or set_provider succeeds
\* while the partner field is set, endpoint = model@provider.
C8_ProviderThenModel ==
    /\ ( /\ call.kind = "construct"
         /\ KeyGiven(call.args)
         /\ ~Truthy(call.args.endpoint)
         /\ ~Truthy(call.args.model)
         /\ Truthy(call.args.provider)
         /\ call.args.provider[1] \in list_providers(None) ) =>
           /\ call.outcome = "ok"
           /\ provider = call.args.provider
    /\ (call.kind = "set_model" /\ call.outcome = "ok" /\ Truthy(provider)) =>
           endpoint = Some(<<call.args, provider[1]>>)
    /\ (call.kind = "set_provider" /\ call.outcome = "ok" /\ Truthy(model)) =>
           endpoint = Some(<<model[1], call.args>>)

\* the setter rejected the value: UnifyError naming the valid set, after one
\* listing request, with the identity as it was
C9_Rejected(valid) ==
    /\ call'.outcome = "UnifyError"
    /\ call'.named = valid
    /\ call'.listing = 1
    /\ endpoint' = endpoint /\ model' = model /\ provider' = provider

C9_Step ==
    /\ (call'.kind = "set_endpoint" /\ call'.args \notin list_endpoints) =>
          C9_Rejected(list_endpoints)
    /\ (call'.kind = "set_model" /\ call'.args \notin list_models(provider)) =>
          C9_Rejected(list_models(provider))
    /\ (call'.kind = "set_provider" /\ call'.args \notin list_providers(model)) =>
          C9_Rejected(list_providers(model))
    /\ (call'.kind \in {"set_endpoint", "set_model", "set_provider"}) =>
          call'.listing = 1

\* C9: set_endpoint, set_model and set_provider validate the value against
\* the fetched list (for set_model and set_provider the list for the current
\* partner field); a value not in it gives a UnifyError naming the valid set
\* and leaves endpoint, model and provider unchanged.
C9_SettersValidate == [][C9_Step]_vars

\* set_provider rejected a provider that exists, but not for the current model
C9_Witness ==
    /\ call.kind = "set_provider"
    /\ call.outcome = "UnifyError"
    /\ Truthy(model)
    /\ call.named = list_providers(model)
    /\ call.named # list_providers(None)
    /\ call.args \in list_providers(None)

C10_Step ==
    /\ ( /\ call'.kind = "generate"
         /\ call'.outcome = "ok"
         /\ endpoint # None
         /\ IsRouter(endpoint[1]) ) =>
           (provider' = provider /\ endpoint' = endpoint)
    /\ ( /\ call'.kind = "next"
         /\ call'.outcome = "ok"
         /\ IsRouter(gen.endpoint[1]) ) =>
           (provider' = provider /\ endpoint' = endpoint)
    /\ ( /\ call'.kind = "generate"
         /\ call'.outcome = "ok"
         /\ endpoint # None
         /\ ~IsRouter(endpoint[1])
         /\ call'.result.kind = "completion" ) =>
           provider' = Some(Last(call'.result.value.model))
    /\ ( /\ call'.kind = "next"
         /\ call'.outcome = "ok"
         /\ ~IsRouter(gen.endpoint[1])
         /\ call'.result.kind # "stop" ) =>
           provider' = Some(Last(gen'.model[1]))

\* C10: after a successful generate call, streaming or not, on a non-router
\* endpoint the provider field is the provider part of the response's model
\* identifier; on a router endpoint the call leaves provider and endpoint
\* as they were.
C10_ProviderFollowsResponse == [][C10_Step]_vars

\* C11: in streaming mode, for both variants, each received chunk produces
\* at most one yielded item; with content-only on every item is a text
\* fragment, with content-only off it is the full chunk object, and the item
\* comes from the chunk received last (chunks are read in order).
C11_OneItemPerChunk ==
    /\ gen.state # "none" => gen.yielded <= gen.received
    /\ ( /\ call.kind = "next"
         /\ call.outcome = "ok"
         /\ call.result.kind # "stop" ) =>
           /\ call.result.kind = (IF gen.mco THEN "text" ELSE "chunk")
           /\ call.result.value =
                (IF ~gen.mco THEN gen.last[1]
                 ELSE IF gen.last[1].content = None THEN <<>>
                 ELSE gen.last[1].content[1])

\* t is s without the spaces at its two ends
IsTrimOf(t, s) ==
    /\ t = <<>> \/ (t[1] # " " /\ t[Len(t)] # " ")
    /\ \E a \in 0..Len(s) :
         /\ a + Len(t) <= Len(s)
         /\ t = SubSeq(s, a + 1, a + Len(t))
         /\ \A i \in 1..Len(s) : (i <= a \/ i > a + Len(t)) => s[i] = " "

\* C12: a successful non-streaming call with content-only on returns the
\* first choice's message content without its leading and trailing spaces
\* (the empty string when the content is absent or empty); with content-only
\* off it returns the completion object as obtained.
C12_NonStreamResult ==
    ( /\ call.kind \in {"generate", "transport"}
      /\ call.outcome = "ok"
      /\ call.transport.route = "non_stream" ) =>
        IF TruthyBool(call.transport.mco)
        THEN /\ call.result.kind = "text"
             /\ IsTrimOf(call.result.value,
                         IF call.completion[1].content = None THEN <<>>
                         ELSE call.completion[1].content[1])
        ELSE call.result = [kind |-> "completion", value |-> call.completion[1]]

\* a content-only call whose response has spaces at both ends of the content
C12_Witness ==
    /\ IsGenerate
    /\ call.outcome = "ok"
    /\ call.transport.route = "non_stream"
    /\ TruthyBool(call.transport.mco)
    /\ call.completion[1].content = Some(<<" ", "h", " ">>)
    /\ call.result.value = <<"h">>

\* the parameters behind the request of the last call
Behind == IF call.kind = "next" THEN gen.h ELSE call.handed

C15_Step ==
    /\ (call'.kind \in {"generate", "transport"} /\ call'.outcome # "ok") =>
          UNCHANGED <<endpoint, model, provider, cacheStore>>
    /\ (call'.kind = "next" /\ call'.outcome # "ok") =>
          /\ Ident(endpoint', model', provider') = gen.start[1]
          /\ cacheStore' = cacheStore

\* C15: a generate call that fails, while the request is made or while its
\* stream is consumed, leaves the client's endpoint, model and provider and
\* the cache as they were before the call.
C15_AllOrNothing == [][C15_Step]_vars

\* C16: a generate call issues at most one chat-completion request, over
\* the whole life of its stream when it streams, and a request the remote
\* service fails makes the very call that issued it fail, with no result.
C16_NoRetry ==
    /\ call.kind \in {"generate", "transport", "next"} => call.chat <= 1
    /\ gen.state # "none" => gen.requests <= 1
    /\ call.status # None =>
         /\ call.outcome # "ok"
         /\ call.result = None
         /\ call.kind = "next" => gen.state = "failed"

\* a non-streaming generate call whose one request failed
C16_Witness ==
    /\ call.kind = "generate"
    /\ call.transport.route = "non_stream"
    /\ call.status = Some(400)
    /\ call.chat = 1
    /\ call.outcome = "BadRequestError"

\* whether the payload kw carries each request parameter handed to the call
\* as it was handed, a parameter being absent exactly when it is null
Carries(kw, h) ==
    /\ \A f \in {"max_tokens", "temperature", "tools"} :
         IF h[f] = None THEN f \notin DOMAIN kw
         ELSE f \in DOMAIN kw /\ kw[f] = h[f]
    /\ kw.messages =
         Some(BuildContents(h.system_prompt, h.user_prompt, h.messages).contents)
    /\ kw.extra_body[1].use_custom_keys = h.use_custom_keys
    /\ kw.extra_body[1].tags = h.tags
    /\ "stream" \notin DOMAIN kw

\* the stored responses a lookup of kw can give
Stored(store, kw) == { en[2] : en \in { x \in store : x[1] = kw } } \ {NullResponse}

C17_Step ==
    IF call'.kind \in {"generate", "transport"} /\ call'.cacheRead
    THEN /\ call'.transport.route = "non_stream"
         /\ TruthyBool(call'.handed.cache)
         /\ Carries(call'.key[1], call'.handed)
         /\ (Stored(cacheStore, call'.key[1]) = {} /\ "model" \in DOMAIN call'.key[1])
               => call'.chat = 1
         /\ (call'.chat = 0 /\ call'.outcome = "ok") =>
               /\ call'.completion[1] \in Stored(cacheStore, call'.key[1])
               /\ call'.result = Returned(TruthyBool(call'.transport.mco),
                                          call'.completion[1])
    ELSE cacheStore' = cacheStore

\* C17: only a non-streaming call that asks for the cache consults it, under
\* a key that is the whole payload and so carries every request parameter;
\* a lookup that finds no entry with exactly that payload goes to the remote
\* service, a hit returns the stored response, and any other call leaves
\* the cache alone.
C17_CacheByPayload == [][C17_Step]_vars

\* a call answered from the cache
C17_Witness ==
    /\ call.kind = "generate"
    /\ call.cacheRead
    /\ call.chat = 0
    /\ call.outcome = "ok"
    /\ <<call.key[1], call.completion[1]>> \in cacheStore

\* C18: get_credit_balance issues exactly one GET; a network or HTTP
\* failure raises the request error; a body that is not JSON, or JSON
\* without the credits field, raises ValueError; otherwise the credits are
\* returned.
C18_CreditBalance ==
    call.kind = "get_credit_balance" =>
      /\ call.gets = 1
      /\ call.args.kind \in {"network", "status"} => call.outcome = RequestError(klass)
      /\ call.args.kind \in {"invalid", "nofield"} => call.outcome = "ValueError"
      /\ call.args.kind = "ok" =>
           call.outcome = "ok" /\ call.result = Some(call.args.credits)

\* C19: get_endpoint_metrics issues one GET per call; the Metrics record it
\* returns takes its measurements from the first record of the response and
\* its region and seq_len from the call; a response that cannot be parsed, an
\* empty list or a record lacking a field included, raises a value error.
C19_EndpointMetrics ==
    call.kind = "get_endpoint_metrics" =>
      /\ call.gets <= 1
      /\ call.outcome = "ok" =>
           /\ call.gets = 1
           /\ call.result[1].time_to_first_token = call.args.resp.body[1].ttft
           /\ call.result[1].measured_at = call.args.resp.body[1].measured_at
           /\ call.result[1].region = call.args.region
           /\ call.result[1].seq_len = call.args.seq_len
      /\ (call.gets = 1 /\ call.args.resp.kind \in {"invalid", "json"}
            /\ call.outcome # "ok") => call.outcome \in ValueErrors

\* C20: _Client.generate hands on no token limit (no temperature) when
\* max_completion_tokens=None (temperature=None) is passed explicitly, and
\* the client's default, 1024 (1.0) unless changed, when the argument is
\* left out.
C20_ExplicitNone ==
    call.kind = "base_generate" =>
      \A f \in {"max_completion_tokens", "temperature"} :
        /\ call.args[f] = None => call.handed[f] = None
        /\ call.args[f] = Omitted =>
             call.handed[f] = Default(dflt[f], BaseCtorDefault[f])

\* C21: a constructor given no key, with none in the environment, raises
\* UnifyError before anything else: no listing request is made, no endpoint,
\* model or provider is looked at (the error names no valid set), and no
\* field of the client is assigned.
C21_NoKeyFailsFirst ==
    (call.kind = "construct" /\ call.args.api_key = None /\ call.args.env_key = None) =>
      /\ call.outcome = "UnifyError"
      /\ call.listing = 0
      /\ call.named = {}
      /\ pc = "failed"
      /\ endpoint = Unset /\ model = Unset /\ provider = Unset /\ dflt = Unset

\* a keyless construction with an endpoint that validation would reject
C21_Witness ==
    /\ call.kind = "construct"
    /\ klass = "Unify"
    /\ call.args.api_key = None /\ call.args.env_key = None
    /\ Truthy(call.args.endpoint)
    /\ call.args.endpoint[1] \notin SupportedEndpoints
    /\ call.outcome = "UnifyError"

C22_Step ==
    /\ (call'.kind = "upload_dataset" /\ call'.outcome = "ok") =>
          call'.args.name \in list_datasets(datasets')
    /\ (call'.kind = "delete_dataset" /\ call'.outcome = "ok") =>
          call'.args.name \notin list_datasets(datasets')
    /\ (call'.kind = "list_datasets") =>
          call'.result = Some(list_datasets(datasets))
    /\ (call'.kind = "upload_dataset" /\ call.kind = "delete_dataset"
          /\ call.outcome = "ok" /\ call.args.name = call'.args.name) =>
          /\ call'.outcome = "ok"
          /\ datasets' = datasets \cup { <<call'.args.name, call'.args.records>> }

\* C22: after an upload, from a file or from a list of records, the name is
\* in the listing; after a delete of that name it is not; and an upload that
\* follows the delete of a stored dataset of the same name succeeds and
\* leaves the store as an upload of a new name would: the other datasets and
\* this one with the records uploaded.
C22_DatasetRoundTrip == [][C22_Step]_vars

\* a dataset uploaded again after the stored one of its name was deleted
C22_Witness ==
    /\ call.kind = "upload_dataset"
    /\ call.outcome = "ok"
    /\ call.args.how = "dictionary"
    /\ call.prev = Some([kind |-> "delete_dataset", outcome |-> "ok"])
    /\ <<call.args.name, call.args.records>> \in datasets
    /\ Cardinality(datasets) = 2

\* what Unify does with the generate call that AsyncUnify has just been
\* given, in the same state and for some response of the remote service
C23_Step ==
    (call'.kind = "generate" /\ klass = "AsyncUnify" /\ Truthy(call'.args[1])
       /\ endpoint # None) =>
      LET h == call'.handed
          built == BuildContents(h.system_prompt, h.user_prompt, h.messages)
          mco == TruthyBool(ContentOnly("Unify", h.tools, h.message_content_only))
          id == Ident(endpoint, model, provider)
          kw == BuildKw(endpoint, Query(built.contents, h), TruthyBool(h.stream),
                        h.use_custom_keys, h.tags)
          remotes == IF Misses(cacheStore, kw, TruthyBool(h.cache))
                     THEN RemoteOutcomes(endpoint[1], Contents) ELSE {NoRemote}
      IN  IF Dispatch(h.stream) = "stream"
          THEN /\ call'.outcome = "ok"
               /\ call'.result = [kind |-> "generator"]
               /\ gen'.state = "created" /\ gen'.kw = kw
          ELSE \E remote \in remotes :
                 LET r == Unify_generate_non_stream(id, cacheStore, endpoint, kw,
                                                    mco, TruthyBool(h.cache), remote)
                 IN  /\ call'.outcome = r.err
                     /\ call'.result = r.result
                     /\ call'.chat = r.chat
                     /\ Ident(endpoint', model', provider') = r.id
                     /\ cacheStore' = r.store

\* C23: a generate call on AsyncUnify with a user prompt and an endpoint set
\* sends the request, returns the result and leaves the client and the cache
\* as the same call on Unify does for the same response.
C23_AsyncEquivalent == [][C23_Step]_vars

\* whether an identity field holds a value
IsSet(x) == x # None /\ x # Unset

\* C24: on a constructed client, whenever the endpoint is set the model and
\* the provider are set too and the endpoint is model@provider.
C24_EndpointIdentity ==
    (pc = "ready" /\ klass \in {"Unify", "AsyncUnify"} /\ IsSet(endpoint)) =>
      /\ IsSet(model)
      /\ IsSet(provider)
      /\ endpoint[1] = <<model[1], provider[1]>>

\* C25: a streaming generate call on Unify sends nothing; the first next()
\* sends one request, later ones none; and the request carries the endpoint
\* and the parameters in effect when generate was called, whatever setters
\* ran in between.
C25_LazyBoundAtCall ==
    klass = "Unify" =>
      /\ (call.kind = "generate" /\ call.outcome = "ok"
            /\ call.transport.route = "stream") =>
           /\ call.chat = 0
           /\ call.payload = None
           /\ gen.state = "created" /\ gen.requests = 0
      /\ gen.state \in {"open", "done"} => gen.requests = 1
      /\ gen.state # "none" => gen.requests <= 1
      /\ (call.kind = "next" /\ call.chat = 1) =>
           call.payload =
             Some(BuildKw(gen.start[1].endpoint,
                          Query(BuildContents(gen.h.system_prompt, gen.h.user_prompt,
                                              gen.h.messages).contents, gen.h),
                          TRUE, gen.h.use_custom_keys, gen.h.tags))

\* a first next() whose request names the model of the endpoint that was set
\* when generate was called, after set_endpoint moved the client elsewhere
C25_Witness ==
    /\ klass = "Unify"
    /\ call.kind = "next"
    /\ call.chat = 1
    /\ IsSet(endpoint)
    /\ call.payload[1].model = gen.start[1].endpoint
    /\ call.payload[1].model[1][1] # endpoint[1][1]

\* the value in effect for parameter f of the last generate call: the
\* argument when given and not null, else the client-level default
InEffect(f) ==
    IF call.args[2][f] \in {Omitted, None} THEN dflt[f] ELSE call.args[2][f]

Commands == { "quit", "pause" }

\* the user messages among a sequence of messages
UserContents(messages) ==
    { messages[i][2] : i \in { j \in DOMAIN messages : messages[j][1] = "user" } }

C27_Step ==
    /\ (call'.kind = "input" /\ call'.args = "quit") =>
          /\ bot'.state = "idle"
          /\ dflt'.messages = Some(<<>>)
          /\ ~bot'.paused
    /\ (call'.kind = "input" /\ call'.args = "pause") =>
          /\ bot'.state = "idle"
          /\ dflt'.messages = dflt.messages
          /\ bot'.paused
    /\ call'.kind = "run" =>
          /\ bot'.state = "prompt"
          /\ ~bot'.paused
          /\ dflt'.messages = IF bot.paused THEN dflt.messages ELSE Some(<<>>)
    /\ (call'.kind = "input" /\ call'.args \in Commands) =>
          /\ call'.chat = 0
          /\ call'.payload = None
          /\ <<endpoint', model', provider', cacheStore'>>
               = <<endpoint, model, provider, cacheStore>>
    /\ (call'.kind \in {"input", "run"} /\ dflt'.messages # None) =>
          UserContents(dflt'.messages[1]) \cap Commands = {}
    /\ (call'.kind = "input" /\ call'.payload # None) =>
          UserContents(call'.payload[1].messages[1]) \cap Commands = {}

\* C27: in ChatBot.run, quit ends the loop with the history cleared and the
\* bot not paused, pause ends it with the history kept and the bot paused, a
\* run started while paused keeps the history and clears the flag, a run
\* started while not paused starts from an empty history, and neither
\* command is sent to the model or recorded in the history
C27_RunProtocol == [][C27_Step]_vars

\* a run resumed after a pause, with the exchange made before the pause
\* still in the history
C27_Witness ==
    /\ call.kind = "run"
    /\ call.prev[1].paused
    /\ ~bot.paused
    /\ dflt.messages # None
    /\ Len(dflt.messages[1]) = 2

\* the messages of a request without the system message put before them
Conversed(sent) == IF sent # <<>> /\ sent[1][1] = "system" THEN Tail(sent) ELSE sent

\* the text the client returns for a reply: its content without the spaces
\* around it, the empty text when there is none
ReplyText(content) ==
    IF content = None \/ content = Some(<<>>) THEN <<>>
    ELSE LET t == content[1]
             inner == { i \in DOMAIN t : t[i] # " " }
         IN  IF inner = {} THEN <<>>
             ELSE LET lo == CHOOSE i \in inner : \A j \in inner : i <= j
                      hi == CHOOSE i \in inner : \A j \in inner : j <= i
                  IN  SubSeq(t, lo, hi)

\* C28: at every prompt of the run loop the client's message history
\* alternates user, assistant, ... with even length, and the k-th assistant
\* entry is the reply to the request that carried the first 2k-1 entries
C28_HistoryAlternates ==
    (bot # NoBot /\ bot.state = "prompt") =>
        /\ dflt.messages # None
        /\ LET history == dflt.messages[1]
           IN  /\ Len(history) = 2 * Len(bot.log)
               /\ \A i \in DOMAIN history :
                     history[i][1] = IF i % 2 = 1 THEN "user" ELSE "assistant"
               /\ \A k \in DOMAIN bot.log :
                     /\ Conversed(bot.log[k].sent) = SubSeq(history, 1, 2 * k - 1)
                     /\ history[2 * k][2] = bot.log[k].reply
                     /\ bot.log[k].reply = ReplyText(bot.log[k].content)

\* a prompt of a resumed run with two exchanges in the history, one made
\* before the pause and one after it
C28_Witness ==
    /\ bot # NoBot
    /\ bot.state = "prompt"
    /\ bot.runs = 2
    /\ call.kind = "input"
    /\ call.outcome = "ok"
    /\ Len(dflt.messages[1]) = 4

\* C29: a ChatBot only ever wraps a content-only client: after construction
\* and after any sequence of set_client calls the wrapped client's
\* message_content_only flag is true
C29_ContentOnlyClient ==
    bot # NoBot => TruthyBool(dflt.message_content_only)

C30_Step ==
    call'.kind \in {"generate", "next", "transport"} =>
        /\ dflt' = dflt
        /\ model' = model
        /\ klass' = klass

\* C30: a generate call, whatever arguments it is given and whether it
\* succeeds or fails, leaves every client-level default unchanged; of the
\* client's fields only provider and endpoint may change
C30_OverridesNotSticky == [][C30_Step]_vars

\* a generate call that was given an explicit argument other than the
\* client's default, got its completion and set the provider from it
C30_Witness ==
    /\ call.kind = "generate"
    /\ call.outcome = "ok"
    /\ call.completion # None
    /\ provider = Some(call.completion[1].model[2])
    /\ \E f \in Params :
          /\ call.args[2][f] # Omitted
          /\ call.handed[f] # dflt[f]

====
